---- MODULE Spec2Model ----
(***************************************************************************)
(* Model of cmd/web/server.go: ParseArgs, Logger and Serve, together with  *)
(* the behaviour of the router (gorilla/mux v1.8.1), the access policy     *)
(* (rs/cors) and the static file server (net/http) that Serve assembles.   *)
(*                                                                         *)
(* A request path "/a/b/" is the record [segs |-> <<"a","b">>,             *)
(* slash |-> TRUE]; "/" is [segs |-> <<>>, slash |-> TRUE].  An origin or  *)
(* a front_address is a sequence of tokens, "*" being the wildcard token.  *)
(***************************************************************************)
EXTENDS Integers, Sequences, FiniteSets, TLC

VARIABLES pc, c, serverConfig, rBase, hist, exitCode, req, resp, logs, events

vars == <<pc, c, serverConfig, rBase, hist, exitCode, req, resp, logs, events>>

(* Longest request path, in segments. *)
MaxSegs == 2

Segments == {"ui", "api", "sessions", "index.html", "app.js", ".."}

HttpMethods == {"GET", "POST", "PUT", "DELETE", "OPTIONS", "HEAD"}

SeqsUpTo(S, n) == UNION {[1..k -> S] : k \in 0..n}

Paths == {p \in [segs : SeqsUpTo(Segments, MaxSegs), slash : BOOLEAN] :
            p.segs = <<>> => p.slash}

(* ------------------------------------------------------------------ *)
(* Command line                                                       *)
(* ------------------------------------------------------------------ *)

DefaultPort == 8080

DefaultFront == <<"http://", "localhost:8001">>

(* Values of -port as typed; <<>> is "flag not given". *)
PortArgs == {<<>>, <<"0">>, <<"8", "0", "8", "0">>, <<"-", "1">>,
             <<"6", "5", "5", "3", "6">>, <<"x">>}

(* Values of -front_address. *)
FrontArgs == {DefaultFront, <<"*">>, <<"http://", "*", ".example.com">>}

(* Values of -webui_path. *)
UiPathArgs == {"/assets"}

DigitVal == ("0" :> 0) @@ ("1" :> 1) @@ ("2" :> 2) @@ ("3" :> 3) @@ ("4" :> 4)
            @@ ("5" :> 5) @@ ("6" :> 6) @@ ("7" :> 7) @@ ("8" :> 8) @@ ("9" :> 9)

RECURSIVE DigitsValue(_, _)
DigitsValue(s, acc) ==
  IF s = <<>> THEN acc
  ELSE DigitsValue(Tail(s), 10 * acc + DigitVal[Head(s)])

AllDigits(s) == s # <<>> /\ \A i \in 1..Len(s) : s[i] \in DOMAIN DigitVal

(* flag.Int's conversion of the text of -port: any decimal integer, signed
   or not, is accepted; there is no range check. *)
ParsePortFlag(text) ==
  IF text = <<>> THEN [ok |-> TRUE, val |-> DefaultPort]
  ELSE IF AllDigits(text) THEN [ok |-> TRUE, val |-> DigitsValue(text, 0)]
  ELSE IF Head(text) = "-" /\ AllDigits(Tail(text))
       THEN [ok |-> TRUE, val |-> 0 - DigitsValue(Tail(text), 0)]
  ELSE [ok |-> FALSE, val |-> 0]

WebConfig(port, front, restapi, webui, dist) ==
  [LocalPort |-> port, FrontEndServer |-> front, StartRestApi |-> restapi,
   StartWebUI |-> webui, UIDistPath |-> dist]

ZeroConfig == WebConfig(0, <<>>, FALSE, FALSE, "")

(* ------------------------------------------------------------------ *)
(* Access policy (cors.New and the origin/method tests it installs)   *)
(* ------------------------------------------------------------------ *)

CorsAllowedMethods == {"GET", "POST", "OPTIONS", "DELETE", "PUT"}

CorsOptions(front) ==
  [AllowedOrigins |-> <<front>>, AllowedMethods |-> CorsAllowedMethods,
   AllowCredentials |-> TRUE]

ZeroCors == [AllowedOrigins |-> <<>>, AllowedMethods |-> {},
             AllowCredentials |-> FALSE]

HasWildcard(o) == \E i \in 1..Len(o) : o[i] = "*"

WildcardIndex(o) == CHOOSE i \in 1..Len(o) : o[i] = "*" /\ \A j \in 1..(i - 1) : o[j] # "*"

allowedOriginsAll(policy) ==
  \E i \in 1..Len(policy.AllowedOrigins) : policy.AllowedOrigins[i] = <<"*">>

wildcardMatch(pattern, s) ==
  LET i == WildcardIndex(pattern)
      prefix == SubSeq(pattern, 1, i - 1)
      suffix == SubSeq(pattern, i + 1, Len(pattern))
  IN /\ Len(s) >= Len(prefix) + Len(suffix)
     /\ SubSeq(s, 1, Len(prefix)) = prefix
     /\ SubSeq(s, Len(s) - Len(suffix) + 1, Len(s)) = suffix

isOriginAllowed(policy, origin) ==
  \/ allowedOriginsAll(policy)
  \/ \E i \in 1..Len(policy.AllowedOrigins) :
       LET o == policy.AllowedOrigins[i]
       IN IF HasWildcard(o) THEN wildcardMatch(o, origin) ELSE o = origin

isMethodAllowed(policy, method) ==
  /\ policy.AllowedMethods # {}
  /\ (method = "OPTIONS" \/ method \in policy.AllowedMethods)

(* ------------------------------------------------------------------ *)
(* Router: the route table Serve builds                               *)
(* ------------------------------------------------------------------ *)

ErrNil == "nil"
ErrMethodMismatch == "ErrMethodMismatch"
ErrNotFound == "ErrNotFound"

MethodMatcher(ms) == [type |-> "method", methods |-> ms]
PrefixMatcher(tpl) == [type |-> "prefix", tpl |-> tpl]
PathMatcher(tpl) == [type |-> "path", tpl |-> tpl]
RouterMatcher(r) == [type |-> "router", router |-> r]

(* A handler is the chain of its layers, outermost first; <<>> is nil. *)
NilHandler == <<>>

Route(ms, h, strict, tslash) ==
  [matchers |-> ms, handler |-> h, strictSlash |-> strict, tplSlash |-> tslash]

NewRouter == [routes |-> <<>>, middlewares |-> <<>>]

UiMethods == {"GET"}

ApiMethodsWithPut == {"GET", "POST", "DELETE", "OPTIONS", "PUT"}

ApiMethods == {"GET", "POST", "DELETE", "OPTIONS"}

(* Route tables the API registration callback may install beneath /api/:
   each entry is registered as Methods(methods).Path(path) on the
   subrouter it is handed. *)
ApiRouteTables ==
  { <<>>,
    << [methods |-> {"GET", "POST"}, path |-> <<"sessions">>] >>,
    << [methods |-> {"GET", "POST", "PUT", "DELETE", "OPTIONS"},
        path |-> <<"sessions">>] >> }

RECURSIVE SetupRouter(_, _)
SetupRouter(rApi, table) ==
  IF table = <<>> THEN rApi
  ELSE SetupRouter(
         [rApi EXCEPT !.routes = Append(@,
            Route(<<MethodMatcher(Head(table).methods),
                    PathMatcher(<<"api">> \o Head(table).path)>>,
                  <<"api">>, TRUE, FALSE))],
         Tail(table))

(* rBase.Methods("GET").PathPrefix("/ui/").Subrouter() and the one route of
   the subrouter. *)
UiBranch ==
  LET rUi == [routes |-> <<Route(<<MethodMatcher(UiMethods)>>, <<"static">>,
                                 FALSE, TRUE)>>,
              middlewares |-> <<>>]
  IN Route(<<MethodMatcher(UiMethods), PrefixMatcher(<<"ui">>),
             RouterMatcher(rUi)>>, NilHandler, FALSE, TRUE)

(* rBase.Methods(...).PathPrefix("/api/").Subrouter(), rApi.Use(cors) and
   the routes the callback registers. *)
ApiBranch(table) ==
  LET rApi == SetupRouter([routes |-> <<>>, middlewares |-> <<"Cors">>], table)
  IN Route(<<MethodMatcher(ApiMethods), PrefixMatcher(<<"api">>),
             RouterMatcher(rApi)>>, NilHandler, FALSE, TRUE)

MountsUiAlways(cfg) == TRUE

(* if c.StartWebUI *)
MountsUi(cfg) == cfg.StartWebUI

MountsApiAlways(cfg) == TRUE

(* if c.StartRestApi *)
MountsApi(cfg) == cfg.StartRestApi

BuildRouter(cfg, table) ==
  [routes |-> (IF MountsUi(cfg) THEN <<UiBranch>> ELSE <<>>)
              \o (IF MountsApi(cfg) THEN <<ApiBranch(table)>> ELSE <<>>),
   middlewares |-> <<"Logger">>]

(* ------------------------------------------------------------------ *)
(* Router: matching a request (mux Route.Match and Router.Match)      *)
(* ------------------------------------------------------------------ *)

HasPrefix(path, tpl) ==
  /\ Len(path.segs) >= Len(tpl)
  /\ SubSeq(path.segs, 1, Len(tpl)) = tpl
  /\ (Len(path.segs) > Len(tpl) \/ path.slash)

RECURSIVE Clean(_, _)
Clean(segs, acc) ==
  IF segs = <<>> THEN acc
  ELSE LET s == Head(segs)
       IN Clean(Tail(segs),
                IF s = ".." THEN (IF acc = <<>> THEN acc
                                  ELSE SubSeq(acc, 1, Len(acc) - 1))
                ELSE IF s \in {"", "."} THEN acc
                ELSE Append(acc, s))

cleanPath(path) ==
  LET np == Clean(path.segs, <<>>)
  IN [segs |-> np, slash |-> IF np = <<>> THEN TRUE ELSE path.slash]

NewMatch == [handler |-> NilHandler, err |-> ErrNil]

RECURSIVE RouterMatch(_, _, _), RoutesLoop(_, _, _, _), MatchersLoop(_, _, _, _, _)

MatcherMatch(mt, r, m) ==
  IF mt.type = "method" THEN [ok |-> r.method \in mt.methods, m |-> m]
  ELSE IF mt.type = "prefix" THEN [ok |-> HasPrefix(r.path, mt.tpl), m |-> m]
  ELSE IF mt.type = "path" THEN [ok |-> r.path.segs = mt.tpl, m |-> m]
  ELSE RouterMatch(mt.router, r, m)

(* setMatch: a strict-slash path route answers the other slash form with a
   redirect. *)
setMatch(route, r, m) ==
  IF route.strictSlash /\ r.path.slash # route.tplSlash
  THEN [m EXCEPT !.handler = <<"redirect">>]
  ELSE m

MatchersLoop(route, i, r, m, matchErr) ==
  IF i > Len(route.matchers)
  THEN IF matchErr # ErrNil
       THEN [ok |-> FALSE, m |-> [m EXCEPT !.err = matchErr]]
       ELSE LET m1 == IF m.err = ErrMethodMismatch /\ route.handler # NilHandler
                      THEN [m EXCEPT !.err = ErrNil, !.handler = route.handler]
                      ELSE m
                m2 == IF m1.handler = NilHandler
                      THEN [m1 EXCEPT !.handler = route.handler]
                      ELSE m1
            IN [ok |-> TRUE, m |-> setMatch(route, r, m2)]
  ELSE LET mt == route.matchers[i]
           res == MatcherMatch(mt, r, m)
       IN IF ~res.ok
          THEN IF mt.type = "method"
               THEN MatchersLoop(route, i + 1, r, res.m, ErrMethodMismatch)
               ELSE [ok |-> FALSE,
                     m |-> IF res.m.err = ErrNotFound
                           THEN [res.m EXCEPT !.err = ErrNil] ELSE res.m]
          ELSE MatchersLoop(route, i + 1, r,
                            IF res.m.err = ErrMethodMismatch
                            THEN [res.m EXCEPT !.err = ErrNil] ELSE res.m,
                            matchErr)

RouteMatch(route, r, m) == MatchersLoop(route, 1, r, m, ErrNil)

RoutesLoop(router, i, r, m) ==
  IF i > Len(router.routes)
  THEN IF m.err = ErrMethodMismatch
       THEN [ok |-> FALSE, m |-> m]
       ELSE [ok |-> FALSE, m |-> [m EXCEPT !.err = ErrNotFound]]
  ELSE LET res == RouteMatch(router.routes[i], r, m)
       IN IF res.ok
          THEN [ok |-> TRUE,
                m |-> IF res.m.err = ErrNil
                      THEN [res.m EXCEPT !.handler = router.middlewares \o @]
                      ELSE res.m]
          ELSE RoutesLoop(router, i + 1, r, res.m)

RouterMatch(router, r, m) == RoutesLoop(router, 1, r, m)

(* ------------------------------------------------------------------ *)
(* Requests, responses and the handlers Serve installs                *)
(* ------------------------------------------------------------------ *)

(* Origin header values; <<>> is "no Origin header". *)
Origins == {<<>>, DefaultFront, <<"http://", "app", ".example.com">>}

(* Access-Control-Request-Method header values; "" is "no header". *)
RequestMethods == {"", "POST", "PATCH"}

(* What the handler registered by the API callback does with a request. *)
Outcomes == {"ok", "error", "panic"}

(* Files below webui_path. *)
Files == {<<"index.html">>, <<"app.js">>}

Request(method, path, origin, acrm) ==
  [method |-> method, path |-> path, origin |-> origin, acrm |-> acrm]

NoPath == [segs |-> <<>>, slash |-> TRUE]

NoReq == Request("", NoPath, <<>>, "")

NoLocation == [rel |-> FALSE, segs |-> <<>>, slash |-> FALSE]

Response(status, by, body, location) ==
  [status |-> status, by |-> by, body |-> body, location |-> location,
   acao |-> <<>>, acac |-> FALSE]

NoResp == Response(0, "none", <<>>, NoLocation)

Result(rsp, evs, lg, panicked) ==
  [resp |-> rsp, events |-> evs, logs |-> lg, panicked |-> panicked]

IsFile(name) == name \in Files

IsDir(name) ==
  \/ name = <<>>
  \/ \E f \in Files : Len(f) > Len(name) /\ SubSeq(f, 1, Len(name)) = name

StripPrefixKeepsPath(path) == path

(* http.StripPrefix("/ui/", ...): the request path without the prefix. *)
StripPrefix(path) == [segs |-> Tail(path.segs), slash |-> path.slash]

(* http.FileServer(http.Dir(UIDistPath)) on the stripped path. *)
FileServer(upath) ==
  LET name == upath.segs
      base == IF name = <<>> THEN "/" ELSE name[Len(name)]
  IN IF name # <<>> /\ base = "index.html" /\ ~upath.slash
     THEN Response(301, "static", <<>>,
                   [rel |-> TRUE, segs |-> <<".">>, slash |-> TRUE])
     ELSE IF ~(IsFile(name) \/ IsDir(name))
     THEN Response(404, "static", <<>>, NoLocation)
     ELSE IF IsDir(name) /\ ~upath.slash
     THEN Response(301, "static", <<>>,
                   [rel |-> TRUE, segs |-> <<base>>, slash |-> TRUE])
     ELSE IF IsFile(name) /\ upath.slash
     THEN Response(301, "static", <<>>,
                   [rel |-> TRUE, segs |-> <<"..", base>>, slash |-> FALSE])
     ELSE IF IsDir(name)
     THEN IF IsFile(Append(name, "index.html"))
          THEN Response(200, "static", <<"file">> \o Append(name, "index.html"),
                        NoLocation)
          ELSE Response(200, "static", <<"listing">> \o name, NoLocation)
     ELSE Response(200, "static", <<"file">> \o name, NoLocation)

StaticHandler(r) == FileServer(StripPrefix(r.path))

(* The access policy's headers for a request: none unless the origin (and,
   for a preflight, the requested method) is allowed. *)
CorsHeaders(policy, r, method) ==
  IF r.origin # <<>> /\ isOriginAllowed(policy, r.origin)
     /\ isMethodAllowed(policy, method)
  THEN [acao |-> IF allowedOriginsAll(policy) THEN <<"*">> ELSE r.origin,
        acac |-> policy.AllowCredentials]
  ELSE [acao |-> <<>>, acac |-> FALSE]

IsPreflight(r) == r.method = "OPTIONS" /\ r.acrm # ""

LogLine(r) == [method |-> r.method, uri |-> r.path]

(* Runs a handler chain on a request.  The Logger layer is server.go's
   Logger; the Cors layer is serverConfig.Cors.Handler. *)
RECURSIVE Exec(_, _, _, _)
Exec(chain, r, policy, outcome) ==
  LET layer == Head(chain) IN
  IF layer = "Logger"
  THEN LET inner == Exec(Tail(chain), r, policy, outcome)
       IN IF inner.panicked
          THEN Result(inner.resp, <<"Logger.start">> \o inner.events,
                      inner.logs, TRUE)
          ELSE Result(inner.resp,
                      <<"Logger.start">> \o inner.events \o <<"Logger.log">>,
                      Append(inner.logs, LogLine(r)), FALSE)
  ELSE IF layer = "Cors"
  THEN IF IsPreflight(r)
       THEN LET h == CorsHeaders(policy, r, r.acrm)
            IN Result([Response(204, "cors", <<>>, NoLocation)
                         EXCEPT !.acao = h.acao, !.acac = h.acac],
                      <<"Cors">>, <<>>, FALSE)
       ELSE LET h == CorsHeaders(policy, r, r.method)
                inner == Exec(Tail(chain), r, policy, outcome)
            IN Result(IF inner.panicked THEN inner.resp
                      ELSE [inner.resp EXCEPT !.acao = h.acao, !.acac = h.acac],
                      <<"Cors">> \o inner.events, inner.logs, inner.panicked)
  ELSE IF layer = "api"
  THEN IF outcome = "panic"
       THEN Result(NoResp, <<"api.enter", "api.panic">>, <<>>, TRUE)
       ELSE Result(Response(IF outcome = "ok" THEN 200 ELSE 500, "api",
                            <<"api">>, NoLocation),
                   <<"api.enter", "api.return">>, <<>>, FALSE)
  ELSE IF layer = "static"
  THEN Result(StaticHandler(r), <<"static.enter", "static.return">>, <<>>, FALSE)
  ELSE Result(Response(301, "redirect", <<>>,
                       [rel |-> FALSE, segs |-> r.path.segs,
                        slash |-> ~r.path.slash]),
              <<"redirect">>, <<>>, FALSE)

(* mux Router.ServeHTTP for the router Serve hands to ListenAndServe. *)
RouterServeHTTP(router, policy, r, outcome) ==
  IF cleanPath(r.path) # r.path
  THEN Result(Response(301, "mux", <<>>,
                       [rel |-> FALSE, segs |-> cleanPath(r.path).segs,
                        slash |-> cleanPath(r.path).slash]),
              <<>>, <<>>, FALSE)
  ELSE LET res == RouterMatch(router, r, NewMatch)
           handler == IF res.ok THEN res.m.handler ELSE NilHandler
       IN IF handler = NilHandler /\ res.m.err = ErrMethodMismatch
          THEN Result(Response(405, "mux", <<>>, NoLocation), <<>>, <<>>, FALSE)
          ELSE IF handler = NilHandler
          THEN Result(Response(404, "mux", <<>>, NoLocation), <<>>, <<>>, FALSE)
          ELSE Exec(handler, r, policy, outcome)

(* ------------------------------------------------------------------ *)
(* The program                                                        *)
(* ------------------------------------------------------------------ *)

Init ==
  /\ pc = "start"
  /\ c = ZeroConfig
  /\ serverConfig = [Cors |-> ZeroCors]
  /\ rBase = NewRouter
  /\ hist = <<>>
  /\ exitCode = -1
  /\ req = NoReq
  /\ resp = NoResp
  /\ logs = <<>>
  /\ events = <<>>

(* ParseArgs: flag.Parse exits the process with status 2 on a value it
   cannot convert; otherwise the flag values are returned as they are. *)
ParseArgs ==
  /\ pc = "start"
  /\ \E port \in PortArgs, front \in FrontArgs, restapi \in BOOLEAN,
        webui \in BOOLEAN, dist \in UiPathArgs :
       LET p == ParsePortFlag(port)
       IN IF p.ok
          THEN /\ c' = WebConfig(p.val, front, restapi, webui, dist)
               /\ pc' = "parsed"
               /\ hist' = Append(hist, "ParseArgs")
               /\ exitCode' = exitCode
          ELSE /\ c' = c
               /\ pc' = "exit"
               /\ hist' = hist
               /\ exitCode' = 2
  /\ UNCHANGED <<serverConfig, rBase, req, resp, logs, events>>

(* Serve up to the call of ListenAndServe. *)
Serve ==
  /\ pc = "parsed"
  /\ \E table \in ApiRouteTables :
       /\ serverConfig' = [Cors |-> CorsOptions(c.FrontEndServer)]
       /\ rBase' = BuildRouter(c, table)
       /\ hist' = IF MountsApi(c) THEN Append(hist, "SetupRouter") ELSE hist
  /\ pc' = "built"
  /\ UNCHANGED <<c, exitCode, req, resp, logs, events>>

(* http.ListenAndServe and log.Fatal: the listener opens, or the process
   exits with status 1. *)
ListenAndServe ==
  /\ pc = "built"
  /\ \/ /\ c.LocalPort \in 0..65535
        /\ pc' = "serving"
        /\ hist' = Append(hist, "Listen")
        /\ exitCode' = exitCode
     \/ /\ pc' = "exit"
        /\ hist' = hist
        /\ exitCode' = 1
  /\ UNCHANGED <<c, serverConfig, rBase, req, resp, logs, events>>

(* One request served by rBase. *)
ServeHTTP ==
  /\ pc = "serving"
  /\ \E method \in HttpMethods, path \in Paths, origin \in Origins,
        acrm \in RequestMethods, outcome \in Outcomes :
       /\ acrm # "" => method = "OPTIONS"
       /\ LET r == Request(method, path, origin, acrm)
              res == RouterServeHTTP(rBase, serverConfig.Cors, r, outcome)
          IN /\ req' = r
             /\ resp' = res.resp
             /\ logs' = res.logs
             /\ events' = res.events
  /\ pc' = "responded"
  /\ UNCHANGED <<c, serverConfig, rBase, hist, exitCode>>

(* The server goes on to the next request. *)
NextRequest ==
  /\ pc = "responded"
  /\ pc' = "serving"
  /\ req' = NoReq
  /\ resp' = NoResp
  /\ logs' = <<>>
  /\ events' = <<>>
  /\ UNCHANGED <<c, serverConfig, rBase, hist, exitCode>>

Next == ParseArgs \/ Serve \/ ListenAndServe \/ ServeHTTP \/ NextRequest

Spec == Init /\ [][Next]_vars

(* ------------------------------------------------------------------ *)
(* Properties                                                         *)
(* ------------------------------------------------------------------ *)

Responded == pc = "responded"

Canonical == cleanPath(req.path) = req.path

UnderUi == HasPrefix(req.path, <<"ui">>)

UnderApi == HasPrefix(req.path, <<"api">>)

Has(evs, e) == \E i \in 1..Len(evs) : evs[i] = e

Forwarded == Has(events, "api.enter")

Configured == pc \in {"parsed", "built", "serving", "responded"}

(* C1: every request, whatever the flags and whatever its outcome
   (dispatched, not-found, method-not-allowed), leaves exactly one log line
   with its method and URI. *)
C1_OneLogLinePerRequest ==
  Responded => logs = <<LogLine(req)>>

(* C2: a request under a mounted prefix with a method that branch does not
   allow is answered method-not-allowed, whether or not the other branch is
   mounted (stated for paths in canonical form). *)
C2_DisallowedMethodIs405 ==
  (/\ Responded
   /\ Canonical
   /\ \/ c.StartWebUI /\ UnderUi /\ req.method \notin {"GET"}
      \/ c.StartRestApi /\ UnderApi
         /\ req.method \notin {"GET", "POST", "DELETE", "OPTIONS"})
  => resp.status = 405

DisabledBranchRequest ==
  /\ Responded
  /\ \/ ~c.StartWebUI /\ UnderUi
     \/ ~c.StartRestApi /\ UnderApi
     \/ ~c.StartWebUI /\ ~c.StartRestApi

(* C3 as claimed: a request under the prefix of a disabled branch, and any
   request when both branches are disabled, is answered not-found. *)
C3_DisabledBranchNotFound ==
  DisabledBranchRequest => resp.status = 404

(* C3 as amended: such a request never reaches a handler; it is answered
   not-found when its path is in canonical form, and otherwise with the
   router's 301 redirect to the cleaned path. *)
C3_DisabledBranchUnreachable ==
  DisabledBranchRequest =>
    /\ events = <<>>
    /\ resp.by = "mux"
    /\ IF Canonical THEN resp.status = 404
       ELSE /\ resp.status = 301
            /\ resp.location.segs = cleanPath(req.path).segs
            /\ resp.location.slash = cleanPath(req.path).slash

C3_Witness ==
  /\ Responded
  /\ ~c.StartWebUI /\ c.StartRestApi
  /\ req.method = "GET" /\ req.path = [segs |-> <<"ui", "app.js">>, slash |-> FALSE]
  /\ resp.status = 404

(* C4: a response to a request that reached an /api/ route carries
   Access-Control-Allow-Origin: X and Access-Control-Allow-Credentials: true
   when the request's Origin X equals front_address, and neither header for
   any other X (stated for requests that are not preflights and whose
   handler wrote a response). *)
C4_CorsExactOrigin ==
  (/\ Responded
   /\ Has(events, "Cors")
   /\ ~IsPreflight(req)
   /\ resp.status # 0
   /\ req.origin # <<>>)
  => IF req.origin = c.FrontEndServer
     THEN resp.acao = req.origin /\ resp.acac
     ELSE resp.acao = <<>> /\ ~resp.acac

StaticFileRequest(p) ==
  /\ Responded
  /\ c.StartWebUI
  /\ req.method = "GET"
  /\ req.path = [segs |-> <<"ui">> \o p, slash |-> FALSE]

ApiSessionsWhileDisabled ==
  /\ Responded
  /\ ~c.StartRestApi
  /\ req.method = "GET"
  /\ req.path = [segs |-> <<"api", "sessions">>, slash |-> FALSE]

(* C5 as claimed: with the Web UI enabled GET /ui/p is answered 200 with
   the contents of webui_path/p for every file p, index.html included; with
   the REST API disabled GET /api/sessions is answered 404. *)
C5_StaticFileOK ==
  /\ \A p \in Files :
       StaticFileRequest(p) =>
         resp.status = 200 /\ resp.body = <<"file">> \o p
  /\ ApiSessionsWhileDisabled => resp.status = 404

(* C5 as amended: GET /ui/p is answered 200 with the contents of
   webui_path/p for every file p not named index.html; for a file named
   index.html it is answered with a 301 redirect to "./"; with the REST API
   disabled GET /api/sessions is answered 404. *)
C5_StaticFileServed ==
  /\ \A p \in Files :
       StaticFileRequest(p) =>
         IF p[Len(p)] = "index.html"
         THEN /\ resp.status = 301
              /\ resp.location = [rel |-> TRUE, segs |-> <<".">>, slash |-> TRUE]
         ELSE resp.status = 200 /\ resp.body = <<"file">> \o p
  /\ ApiSessionsWhileDisabled => resp.status = 404

C5_Witness ==
  /\ StaticFileRequest(<<"app.js">>)
  /\ ~c.StartRestApi
  /\ resp.status = 200

(* C6: under a mounted prefix, and at the prefix itself, a path and the same
   path with the trailing slash added or removed lead to the same branch,
   directly or by a redirect from one to the other. *)
C6_TrailingSlashEquivalent ==
  (/\ Responded
   /\ Canonical
   /\ resp.status # 0
   /\ req.path.segs # <<>>
   /\ \/ c.StartWebUI /\ req.path.segs[1] = "ui"
      \/ c.StartRestApi /\ req.path.segs[1] = "api")
  => LET twin == [req EXCEPT !.path.slash = ~req.path.slash]
         other == RouterServeHTTP(rBase, serverConfig.Cors, twin, "ok").resp
     IN \/ resp.by = other.by
        \/ /\ resp.status = 301
           /\ resp.location = [rel |-> FALSE, segs |-> twin.path.segs,
                               slash |-> twin.path.slash]
        \/ /\ other.status = 301
           /\ other.location = [rel |-> FALSE, segs |-> req.path.segs,
                                slash |-> req.path.slash]

(* C7: a configuration returned by ParseArgs has a port in 1..65535; any
   other port input aborts startup. *)
C7_PortPositive ==
  Configured => c.LocalPort \in 1..65535

(* C8 as claimed: in every run of Serve the API registration callback has
   been invoked exactly once by the time the listener is opened. *)
C8_SetupOnce ==
  pc \in {"built", "serving", "responded"} =>
    Cardinality({i \in 1..Len(hist) : hist[i] = "SetupRouter"}) = 1

(* C8 as amended: the callback is invoked exactly once when start_restapi is
   true and not at all when it is false; the invocation comes after
   configuration resolution and before the listener is opened, and nothing
   is registered while the server is serving requests. *)
C8_SetupOnceIfEnabled ==
  /\ pc = "built" =>
       hist = IF c.StartRestApi THEN <<"ParseArgs", "SetupRouter">>
              ELSE <<"ParseArgs">>
  /\ pc \in {"serving", "responded"} =>
       hist = IF c.StartRestApi THEN <<"ParseArgs", "SetupRouter", "Listen">>
              ELSE <<"ParseArgs", "Listen">>

C8_Witness ==
  /\ Responded
  /\ c.StartRestApi
  /\ hist = <<"ParseArgs", "SetupRouter", "Listen">>

(* C9: a request reaches the routes registered by the API callback only if
   the REST API is enabled, its path starts with /api/ and its method is
   GET, POST, DELETE or OPTIONS, and only after the access-policy gate; a
   PUT to /api/... reaches neither the gate nor those routes. *)
C9_ForwardOnlyGated ==
  /\ (Responded /\ Forwarded) =>
       /\ c.StartRestApi
       /\ UnderApi
       /\ req.method \in {"GET", "POST", "DELETE", "OPTIONS"}
       /\ \E i, j \in 1..Len(events) :
            i < j /\ events[i] = "Cors" /\ events[j] = "api.enter"
  /\ (Responded /\ req.method = "PUT" /\ UnderApi) =>
       ~Has(events, "Cors") /\ ~Forwarded

C9_Witness ==
  /\ Responded
  /\ Forwarded
  /\ req.method = "DELETE"
  /\ "PUT" \in serverConfig.Cors.AllowedMethods

(* C10: for a request dispatched to a handler the Logger is the outermost
   layer, and its one log line is emitted after the wrapped handler has
   ended, also when that handler aborts instead of returning. *)
C10_LoggerOutermost ==
  (Responded /\ events # <<>>) =>
    /\ events[1] = "Logger.start"
    /\ events[Len(events)] = "Logger.log"
    /\ \A i \in 1..(Len(events) - 1) : events[i] # "Logger.log"
    /\ logs = <<LogLine(req)>>

====
